---- MODULE Spec2Model ----
(***************************************************************************)
(* Model of intlog.py: integer logarithms and powers by lookup table.      *)
(*                                                                         *)
(* State: the module-level dictionary _lut (base -> list of (exponent,     *)
(* power) pairs indexed by bit length), its value when the current call    *)
(* started (pre), and the call that is executing or has just finished.     *)
(* The table-based functions run to completion in one step; the slow_*     *)
(* functions run their multiplication loop one iteration per step.  A      *)
(* finished call is handed to the caller before the next call starts.      *)
(***************************************************************************)
EXTENDS Integers, Sequences, FiniteSets, TLC

VARIABLES lut, pre, call, thr

vars == <<lut, pre, call, thr>>

----------------------------------------------------------------------------
(* Bounds of the model *)

\* values handed to the query functions are -3, 0 and 1..MaxValue
MaxValue == 10
\* bases are -2, 0, 1 (invalid) and 2..MaxBase
MaxBase == 3
\* extend_fast_range_to_bitlen is called with max_bitlen in 0..MaxBitlenArg
MaxBitlenArg == 5
\* extend_fast_range_to_power is called with max_exponent in -1..MaxExponentArg
MaxExponentArg == 3
\* iterations after which a slow_*_log loop is no longer followed
MaxIter == 6
\* the threaded runs: largest max_bitlen, largest value, bit length of the
\* tables that earlier calls have left
ConcMaxBitlen == 3
ConcMaxValue == 4
ConcSeedBitlen == 2

InvalidBases == {-2, 0, 1}
ValidBases == 2..MaxBase
IntBases == InvalidBases \cup ValidBases
\* the non-integral base 2.5, written as a token that only the isinstance
\* test and the dictionary lookup ever see
FloatBase == 25
Bases == IntBases \cup {FloatBase}
BadValues == {-3, 0}
Values == BadValues \cup (1..MaxValue)
Modes == {"gt", "ge", "lt", "le"}

----------------------------------------------------------------------------
(* Python primitives *)

Bool(b) == IF b THEN 1 ELSE 0

\* isinstance(base, int)
isinstance_int(base) == base # FloatBase

Abs(n) == IF n < 0 THEN 0 - n ELSE n

RECURSIVE NatBits(_)
NatBits(n) == IF n = 0 THEN 0 ELSE 1 + NatBits(n \div 2)

\* int.bit_length(): the number of bits of the absolute value
bit_length(v) == NatBits(Abs(v))

\* base ** e for e >= 0
RECURSIVE IPow(_, _)
IPow(b, e) == IF e = 0 THEN 1 ELSE b * IPow(b, e - 1)

\* operator.add, sub, mul, floordiv, ge, gt, le, lt (comparisons give 0 or 1)
Op(name, a, b) ==
    CASE name = "add" -> a + b
      [] name = "sub" -> a - b
      [] name = "mul" -> a * b
      [] name = "floordiv" -> a \div b
      [] name = "ge" -> Bool(a >= b)
      [] name = "gt" -> Bool(a > b)
      [] name = "le" -> Bool(a <= b)
      [] name = "lt" -> Bool(a < b)

\* the mapping from the rounding argument to the needed operations, as the
\* dictionary literal gives it
_ROUNDING_literal ==
    [gt |-> [add_op |-> "add", cmp_op |-> "ge", mul_op |-> "mul", slow_cmp |-> "le", sub |-> 0],
     ge |-> [add_op |-> "add", cmp_op |-> "gt", mul_op |-> "mul", slow_cmp |-> "lt", sub |-> 0],
     lt |-> [add_op |-> "sub", cmp_op |-> "le", mul_op |-> "floordiv", slow_cmp |-> "lt", sub |-> 1],
     le |-> [add_op |-> "sub", cmp_op |-> "lt", mul_op |-> "floordiv", slow_cmp |-> "le", sub |-> 1]]

\* getattr(operator, name): the comparison functions of the operator module
OperatorFn ==
    [gt |-> "operator.gt", ge |-> "operator.ge", lt |-> "operator.lt", le |-> "operator.le"]

\* for name, value in list(_ROUNDING.items()):
\*     _ROUNDING[getattr(operator, name)] = value
WithOperators(d) ==
    [k \in DOMAIN d \cup {OperatorFn[name] : name \in DOMAIN d} |->
        IF k \in DOMAIN d THEN d[k]
        ELSE d[CHOOSE name \in DOMAIN d : OperatorFn[name] = k]]

\* '>:gt >=:ge U+2265:ge <:lt <=:le U+2264:le'.split(), each item split at ':'
\* (the two non-ASCII symbols are written u2265 and u2264)
AliasItems ==
    << <<">", "gt">>, <<">=", "ge">>, <<"u2265", "ge">>,
       <<"<", "lt">>, <<"<=", "le">>, <<"u2264", "le">> >>

\* for item in ...: _ROUNDING[alias] = _ROUNDING[name]
RECURSIVE WithAliases(_, _)
WithAliases(d, items) ==
    IF items = <<>> THEN d
    ELSE WithAliases((Head(items)[1] :> d[Head(items)[2]]) @@ d, Tail(items))

\* _ROUNDING with the alias loop reading the names in the wrong order
\* (every symbol gets the operations of the name before it)
_ROUNDING_shifted ==
    WithAliases(WithOperators(_ROUNDING_literal),
                << <<">", "le">>, <<">=", "gt">>, <<"u2265", "gt">>,
                   <<"<", "ge">>, <<"<=", "lt">>, <<"u2264", "lt">> >>)

\* the mapping after the module has been loaded
_ROUNDING == WithAliases(WithOperators(_ROUNDING_literal), AliasItems)

\* the name a rounding argument stands for: itself, the operator function
\* of that name, or the symbol given for it
NameOf(rounding) ==
    IF rounding \in DOMAIN _ROUNDING_literal THEN rounding
    ELSE IF \E name \in DOMAIN OperatorFn : OperatorFn[name] = rounding
    THEN CHOOSE name \in DOMAIN OperatorFn : OperatorFn[name] = rounding
    ELSE AliasItems[CHOOSE i \in 1..Len(AliasItems) : AliasItems[i][1] = rounding][2]

_log_error == "ValueError(_log_error)"
_pow_error == "ValueError(_pow_error)"
_base_error == "ValueError(base)"

----------------------------------------------------------------------------
(* The lookup table.  A table is the Python list `limits`: the element   *)
(* with Python index i is at position i + 1; None is the empty tuple and *)
(* a base that is not a key of _lut has the empty sequence.              *)

None == <<>>
NoTable == <<>>
FreshTable == <<None, <<0, 1>>>>

HasTable(l, base) == l[base] # NoTable

\* limits[i]
Item(limits, i) == limits[i + 1]

\* limits[-1]
Last(limits) == limits[Len(limits)]

\* _init_base with the setdefault before the validation of the base
_init_base_early(l, base) ==
    LET limits == IF HasTable(l, base) THEN l[base] ELSE FreshTable
        d == [l EXCEPT ![base] = limits]
    IN IF ~isinstance_int(base)
       THEN [status |-> "TypeError", lut |-> d, exponent |-> 0, power |-> 0]
       ELSE IF base <= 1
       THEN [status |-> _base_error, lut |-> d, exponent |-> 0, power |-> 0]
       ELSE [status |-> "ok", lut |-> d,
             exponent |-> Last(limits)[1], power |-> Last(limits)[2]]

\* _init_base with an assignment in place of setdefault: the table is reset
_init_base_reset(l, base) ==
    IF ~isinstance_int(base)
    THEN [status |-> "TypeError", lut |-> l, exponent |-> 0, power |-> 0]
    ELSE IF base <= 1
    THEN [status |-> _base_error, lut |-> l, exponent |-> 0, power |-> 0]
    ELSE [status |-> "ok", lut |-> [l EXCEPT ![base] = FreshTable],
          exponent |-> 0, power |-> 1]

\* _lut.setdefault(base, [None, (0, 1)]) after the validation of the base
_init_base(l, base) ==
    IF ~isinstance_int(base)
    THEN [status |-> "TypeError", lut |-> l, exponent |-> 0, power |-> 0]
    ELSE IF base <= 1
    THEN [status |-> _base_error, lut |-> l, exponent |-> 0, power |-> 0]
    ELSE LET limits == IF HasTable(l, base) THEN l[base] ELSE FreshTable
         IN [status |-> "ok", lut |-> [l EXCEPT ![base] = limits],
             exponent |-> Last(limits)[1], power |-> Last(limits)[2]]

\* the append loop with the test len(limits) < bitlen
RECURSIVE AppendWhile_short(_, _, _, _)
AppendWhile_short(limits, bitlen, exponent, power) ==
    IF Len(limits) < bitlen
    THEN AppendWhile_short(Append(limits, <<exponent, power>>), bitlen, exponent, power)
    ELSE limits

\* while len(limits) <= bitlen: limits.append((exponent, power))
RECURSIVE AppendWhile(_, _, _, _)
AppendWhile(limits, bitlen, exponent, power) ==
    IF Len(limits) <= bitlen
    THEN AppendWhile(Append(limits, <<exponent, power>>), bitlen, exponent, power)
    ELSE limits

\* _init_next_power with a single append in place of the while loop
_init_next_power_once(limits, exponent, power) ==
    [limits |-> Append(limits, <<exponent, power>>),
     bitlen |-> bit_length(power)]

\* _init_next_power filling one index more than the bit length of the power
_init_next_power_over(limits, exponent, power) ==
    [limits |-> AppendWhile(limits, bit_length(power) + 1, exponent, power),
     bitlen |-> bit_length(power)]

_init_next_power(limits, exponent, power) ==
    [limits |-> AppendWhile(limits, bit_length(power), exponent, power),
     bitlen |-> bit_length(power)]

\* for exponent in range(exponent + 1, max_exponent + 1): ...
RECURSIVE PowerLoop(_, _, _, _, _)
PowerLoop(limits, exponent, power, max_exponent, base) ==
    IF exponent + 1 < max_exponent + 1
    THEN PowerLoop(_init_next_power(limits, exponent + 1, power * base).limits,
                   exponent + 1, power * base, max_exponent, base)
    ELSE [limits |-> limits, exponent |-> exponent, power |-> power]

extend_fast_range_to_power(l, max_exponent, base) ==
    LET i == _init_base(l, base)
    IN IF i.status # "ok" THEN i
       ELSE LET r == PowerLoop(i.lut[base], i.exponent, i.power, max_exponent, base)
            IN [status |-> "ok", lut |-> [i.lut EXCEPT ![base] = r.limits],
                exponent |-> r.exponent, power |-> r.power]

\* the extension loop with exponent += 1 after the call of _init_next_power
RECURSIVE BitlenLoop_stale(_, _, _, _, _, _)
BitlenLoop_stale(limits, exponent, power, bitlen, max_bitlen, base) ==
    IF bitlen < max_bitlen
    THEN LET n == _init_next_power(limits, exponent, power * base)
         IN BitlenLoop_stale(n.limits, exponent + 1, power * base, n.bitlen, max_bitlen, base)
    ELSE [limits |-> limits, exponent |-> exponent, power |-> power]

\* the extension loop with the test bitlen <= max_bitlen
RECURSIVE BitlenLoop_eager(_, _, _, _, _, _)
BitlenLoop_eager(limits, exponent, power, bitlen, max_bitlen, base) ==
    IF bitlen <= max_bitlen
    THEN LET n == _init_next_power(limits, exponent + 1, power * base)
         IN BitlenLoop_eager(n.limits, exponent + 1, power * base, n.bitlen, max_bitlen, base)
    ELSE [limits |-> limits, exponent |-> exponent, power |-> power]

\* while bitlen < max_bitlen: ...
RECURSIVE BitlenLoop(_, _, _, _, _, _)
BitlenLoop(limits, exponent, power, bitlen, max_bitlen, base) ==
    IF bitlen < max_bitlen
    THEN LET n == _init_next_power(limits, exponent + 1, power * base)
         IN BitlenLoop(n.limits, exponent + 1, power * base, n.bitlen, max_bitlen, base)
    ELSE [limits |-> limits, exponent |-> exponent, power |-> power]

extend_fast_range_to_bitlen(l, max_bitlen, base) ==
    LET i == _init_base(l, base)
    IN IF i.status # "ok" THEN i
       ELSE LET r == BitlenLoop(i.lut[base], i.exponent, i.power,
                                Len(i.lut[base]) - 1, max_bitlen, base)
            IN [status |-> "ok", lut |-> [i.lut EXCEPT ![base] = r.limits],
                exponent |-> r.exponent, power |-> r.power]

\* exponent, power = _lut[base][bitlen]
LutGet(l, base, bitlen) ==
    IF ~HasTable(l, base)
    THEN [status |-> "KeyError", exponent |-> 0, power |-> 0]
    ELSE IF bitlen >= Len(l[base])
    THEN [status |-> "IndexError", exponent |-> 0, power |-> 0]
    ELSE IF Item(l[base], bitlen) = None
    THEN [status |-> "TypeError", exponent |-> 0, power |-> 0]
    ELSE [status |-> "ok", exponent |-> Item(l[base], bitlen)[1],
          power |-> Item(l[base], bitlen)[2]]

\* the lookup with an extension to one bit more than the value needs
Fetch_over(l, value, base) ==
    LET g == LutGet(l, base, bit_length(value))
    IN IF g.status \in {"KeyError", "IndexError"}
       THEN extend_fast_range_to_bitlen(l, bit_length(value) + 1, base)
       ELSE [status |-> g.status, lut |-> l, exponent |-> g.exponent, power |-> g.power]

\* try: exponent, power = _lut[base][value.bit_length()]
\* except (KeyError, IndexError):
\*     exponent, power = extend_fast_range_to_bitlen(value.bit_length(), base)
Fetch(l, value, base) ==
    LET g == LutGet(l, base, bit_length(value))
    IN IF g.status \in {"KeyError", "IndexError"}
       THEN extend_fast_range_to_bitlen(l, bit_length(value), base)
       ELSE [status |-> g.status, lut |-> l, exponent |-> g.exponent, power |-> g.power]

----------------------------------------------------------------------------
(* The auto-extending functions.  Each gives the outcome of one call:    *)
(* the status (ok or the exception raised), the dictionary afterwards    *)
(* and the returned value.                                               *)

Raise(l, exc) == [status |-> exc, lut |-> l, result |-> 0]
Return(l, v) == [status |-> "ok", lut |-> l, result |-> v]

\* gt_log with the comparison value > power
gt_log_strict(l, value, base) ==
    IF value <= 0 THEN Raise(l, _log_error)
    ELSE LET f == Fetch(l, value, base)
         IN IF f.status # "ok" THEN Raise(f.lut, f.status)
            ELSE Return(f.lut, f.exponent + Bool(value > f.power))

gt_log(l, value, base) ==
    IF value <= 0 THEN Raise(l, _log_error)
    ELSE LET f == Fetch(l, value, base)
         IN IF f.status # "ok" THEN Raise(f.lut, f.status)
            ELSE Return(f.lut, f.exponent + Bool(value >= f.power))

ge_log(l, value, base) ==
    IF value <= 0 THEN Raise(l, _log_error)
    ELSE LET f == Fetch(l, value, base)
         IN IF f.status # "ok" THEN Raise(f.lut, f.status)
            ELSE Return(f.lut, f.exponent + Bool(value > f.power))

lt_log(l, value, base) ==
    IF value <= 0 THEN Raise(l, _log_error)
    ELSE LET f == Fetch(l, value, base)
         IN IF f.status # "ok" THEN Raise(f.lut, f.status)
            ELSE Return(f.lut, f.exponent - Bool(value <= f.power))

\* le_log with the comparison value > power
le_log_flipped(l, value, base) ==
    IF value <= 0 THEN Raise(l, _log_error)
    ELSE LET f == Fetch(l, value, base)
         IN IF f.status # "ok" THEN Raise(f.lut, f.status)
            ELSE Return(f.lut, f.exponent - Bool(value > f.power))

le_log(l, value, base) ==
    IF value <= 0 THEN Raise(l, _log_error)
    ELSE LET f == Fetch(l, value, base)
         IN IF f.status # "ok" THEN Raise(f.lut, f.status)
            ELSE Return(f.lut, f.exponent - Bool(value < f.power))

int_log(l, value, base, rounding) ==
    IF value <= 0 THEN Raise(l, _log_error)
    ELSE LET r == _ROUNDING[rounding]
             f == Fetch(l, value, base)
         IN IF f.status # "ok" THEN Raise(f.lut, f.status)
            ELSE Return(f.lut, Op(r.add_op, f.exponent, Op(r.cmp_op, value, f.power)))

gt_pow(l, value, base) ==
    IF value <= 0 THEN Raise(l, _pow_error)
    ELSE LET f == Fetch(l, value, base)
         IN IF f.status # "ok" THEN Raise(f.lut, f.status)
            ELSE Return(f.lut, IF value >= f.power THEN f.power * base ELSE f.power)

\* ge_pow with the comparison value >= power
ge_pow_inclusive(l, value, base) ==
    IF value <= 0 THEN Raise(l, _pow_error)
    ELSE LET f == Fetch(l, value, base)
         IN IF f.status # "ok" THEN Raise(f.lut, f.status)
            ELSE Return(f.lut, IF value >= f.power THEN f.power * base ELSE f.power)

ge_pow(l, value, base) ==
    IF value <= 0 THEN Raise(l, _pow_error)
    ELSE LET f == Fetch(l, value, base)
         IN IF f.status # "ok" THEN Raise(f.lut, f.status)
            ELSE Return(f.lut, IF value > f.power THEN f.power * base ELSE f.power)

\* lt_pow with the comparison value < power
lt_pow_strict(l, value, base) ==
    IF value <= 0 THEN Raise(l, _pow_error)
    ELSE LET f == Fetch(l, value, base)
         IN IF f.status # "ok" THEN Raise(f.lut, f.status)
            ELSE Return(f.lut, IF value < f.power THEN f.power \div base ELSE f.power)

lt_pow(l, value, base) ==
    IF value <= 0 THEN Raise(l, _pow_error)
    ELSE LET f == Fetch(l, value, base)
         IN IF f.status # "ok" THEN Raise(f.lut, f.status)
            ELSE Return(f.lut, IF value <= f.power THEN f.power \div base ELSE f.power)

\* le_pow that always returns the stored power
le_pow_stored(l, value, base) ==
    IF value <= 0 THEN Raise(l, _pow_error)
    ELSE LET f == Fetch(l, value, base)
         IN IF f.status # "ok" THEN Raise(f.lut, f.status)
            ELSE Return(f.lut, f.power)

le_pow(l, value, base) ==
    IF value <= 0 THEN Raise(l, _pow_error)
    ELSE LET f == Fetch(l, value, base)
         IN IF f.status # "ok" THEN Raise(f.lut, f.status)
            ELSE Return(f.lut, IF value < f.power THEN f.power \div base ELSE f.power)

int_pow(l, value, base, rounding) ==
    IF value <= 0 THEN Raise(l, _pow_error)
    ELSE LET r == _ROUNDING[rounding]
             f == Fetch(l, value, base)
         IN IF f.status # "ok" THEN Raise(f.lut, f.status)
            ELSE Return(f.lut, IF Op(r.cmp_op, value, f.power) = 1
                               THEN Op(r.mul_op, f.power, base) ELSE f.power)

----------------------------------------------------------------------------
(* The fast_* functions: a bare table lookup *)

fast_gt_log(l, value, base) ==
    LET g == LutGet(l, base, bit_length(value))
    IN IF g.status # "ok" THEN Raise(l, g.status)
       ELSE Return(l, g.exponent + Bool(value >= g.power))

fast_ge_log(l, value, base) ==
    LET g == LutGet(l, base, bit_length(value))
    IN IF g.status # "ok" THEN Raise(l, g.status)
       ELSE Return(l, g.exponent + Bool(value > g.power))

fast_lt_log(l, value, base) ==
    LET g == LutGet(l, base, bit_length(value))
    IN IF g.status # "ok" THEN Raise(l, g.status)
       ELSE Return(l, g.exponent - Bool(value <= g.power))

fast_le_log(l, value, base) ==
    LET g == LutGet(l, base, bit_length(value))
    IN IF g.status # "ok" THEN Raise(l, g.status)
       ELSE Return(l, g.exponent - Bool(value < g.power))

fast_int_log(l, value, base, rounding) ==
    LET r == _ROUNDING[rounding]
        g == LutGet(l, base, bit_length(value))
    IN IF g.status # "ok" THEN Raise(l, g.status)
       ELSE Return(l, Op(r.add_op, g.exponent, Op(r.cmp_op, value, g.power)))

fast_gt_pow(l, value, base) ==
    LET g == LutGet(l, base, bit_length(value))
    IN IF g.status # "ok" THEN Raise(l, g.status)
       ELSE Return(l, IF value >= g.power THEN g.power * base ELSE g.power)

fast_ge_pow(l, value, base) ==
    LET g == LutGet(l, base, bit_length(value))
    IN IF g.status # "ok" THEN Raise(l, g.status)
       ELSE Return(l, IF value > g.power THEN g.power * base ELSE g.power)

fast_lt_pow(l, value, base) ==
    LET g == LutGet(l, base, bit_length(value))
    IN IF g.status # "ok" THEN Raise(l, g.status)
       ELSE Return(l, IF value <= g.power THEN g.power \div base ELSE g.power)

\* fast_le_pow that extends the table on a miss, as le_pow does
fast_le_pow_extending(l, value, base) ==
    LET f == Fetch(l, value, base)
    IN IF f.status # "ok" THEN Raise(f.lut, f.status)
       ELSE Return(f.lut, IF value < f.power THEN f.power \div base ELSE f.power)

fast_le_pow(l, value, base) ==
    LET g == LutGet(l, base, bit_length(value))
    IN IF g.status # "ok" THEN Raise(l, g.status)
       ELSE Return(l, IF value < g.power THEN g.power \div base ELSE g.power)

fast_int_pow(l, value, base, rounding) ==
    LET r == _ROUNDING[rounding]
        g == LutGet(l, base, bit_length(value))
    IN IF g.status # "ok" THEN Raise(l, g.status)
       ELSE Return(l, IF Op(r.cmp_op, value, g.power) = 1
                      THEN Op(r.mul_op, g.power, base) ELSE g.power)

----------------------------------------------------------------------------
(* The slow_* functions.  SlowEnter is the code before the loop; each    *)
(* slow_* operator is one evaluation of the loop test with the locals    *)
(* power and exponent: either one more iteration or the return.          *)

SlowEnter(value, error) ==
    IF value <= 0
    THEN [status |-> error, power |-> 0, exponent |-> 0, result |-> 0]
    ELSE [status |-> "running", power |-> 1, exponent |-> 0, result |-> 0]

Iterate(power, exponent) ==
    [status |-> "running", power |-> power, exponent |-> exponent, result |-> 0]

Leave(power, exponent, v) ==
    [status |-> "ok", power |-> power, exponent |-> exponent, result |-> v]

\* power // base, which raises on base = 0
LeaveDiv(power, exponent, base) ==
    IF base = 0
    THEN [status |-> "ZeroDivisionError", power |-> power, exponent |-> exponent, result |-> 0]
    ELSE Leave(power, exponent, power \div base)

slow_gt_log(value, base, power, exponent) ==
    IF power <= value THEN Iterate(power * base, exponent + 1)
    ELSE Leave(power, exponent, exponent)

slow_ge_log(value, base, power, exponent) ==
    IF power < value THEN Iterate(power * base, exponent + 1)
    ELSE Leave(power, exponent, exponent)

slow_lt_log(value, base, power, exponent) ==
    IF power < value THEN Iterate(power * base, exponent + 1)
    ELSE Leave(power, exponent, exponent - 1)

\* slow_le_log with the loop test power < value
slow_le_log_strict(value, base, power, exponent) ==
    IF power < value THEN Iterate(power * base, exponent + 1)
    ELSE Leave(power, exponent, exponent - 1)

slow_le_log(value, base, power, exponent) ==
    IF power <= value THEN Iterate(power * base, exponent + 1)
    ELSE Leave(power, exponent, exponent - 1)

slow_int_log(value, base, rounding, power, exponent) ==
    LET r == _ROUNDING[rounding]
    IN IF Op(r.slow_cmp, power, value) = 1 THEN Iterate(power * base, exponent + 1)
       ELSE Leave(power, exponent, exponent - r.sub)

slow_gt_pow(value, base, power, exponent) ==
    IF power <= value THEN Iterate(power * base, exponent)
    ELSE Leave(power, exponent, power)

slow_ge_pow(value, base, power, exponent) ==
    IF power < value THEN Iterate(power * base, exponent)
    ELSE Leave(power, exponent, power)

slow_lt_pow(value, base, power, exponent) ==
    IF power < value THEN Iterate(power * base, exponent)
    ELSE LeaveDiv(power, exponent, base)

slow_le_pow(value, base, power, exponent) ==
    IF power <= value THEN Iterate(power * base, exponent)
    ELSE LeaveDiv(power, exponent, base)

slow_int_pow(value, base, rounding, power, exponent) ==
    LET r == _ROUNDING[rounding]
    IN IF Op(r.slow_cmp, power, value) = 1 THEN Iterate(power * base, exponent)
       ELSE IF r.sub # 0 THEN LeaveDiv(power, exponent, base)
            ELSE Leave(power, exponent, power)

----------------------------------------------------------------------------
(* The state machine *)

NoCall ==
    [disc |-> "none", cat |-> "none", mode |-> "none", int |-> FALSE, rounding |-> "none",
     value |-> 0, base |-> 0, status |-> "none", result |-> 0, exponent |-> 0, power |-> 0]

\* a thread that executes no call
NoThread ==
    [pc |-> "idle", op |-> "none", cat |-> "none", mode |-> "none", value |-> 0, base |-> 0,
     max_bitlen |-> -1, exponent |-> 0, power |-> 0, status |-> "none", result |-> 0,
     covered |-> FALSE, expect |-> 0, len0 |-> 0, len1 |-> 0]

Threads == {1, 2}

Init ==
    /\ lut = [b \in Bases |-> NoTable]
    /\ pre = lut
    /\ call = NoCall
    /\ thr = [t \in Threads |-> NoThread]

\* the program is single-threaded: a call starts when no call is executing
\* and the caller has taken the outcome of the one before
Idle == call.status = "none"

\* a whole call of an auto-extending or fast_* function; for a dispatcher
\* (int) the argument `mode` is the rounding argument of the call
Finish(disc, cat, mode, int, value, base, r) ==
    /\ lut' = r.lut
    /\ thr' = thr
    /\ pre' = lut
    /\ call' = [disc |-> disc, cat |-> cat, mode |-> IF int THEN NameOf(mode) ELSE mode,
                int |-> int, rounding |-> IF int THEN mode ELSE "none", value |-> value,
                base |-> base, status |-> r.status, result |-> r.result,
                exponent |-> 0, power |-> 0]

\* the start of a call of a slow_* function, up to the first loop test
Enter(cat, mode, int, value, base, r) ==
    /\ lut' = lut
    /\ thr' = thr
    /\ pre' = lut
    /\ call' = [disc |-> "slow", cat |-> cat, mode |-> IF int THEN NameOf(mode) ELSE mode,
                int |-> int, rounding |-> IF int THEN mode ELSE "none", value |-> value,
                base |-> base, status |-> r.status, result |-> r.result,
                exponent |-> r.exponent, power |-> r.power]

\* a whole call of an extension function
Extend(cat, target, base, r) ==
    /\ lut' = r.lut
    /\ thr' = thr
    /\ pre' = lut
    /\ call' = [disc |-> "extend", cat |-> cat, mode |-> "none", int |-> FALSE,
                rounding |-> "none", value |-> target, base |-> base, status |-> r.status, result |-> 0,
                exponent |-> r.exponent, power |-> r.power]

Call_extend_fast_range_to_power ==
    /\ Idle
    /\ \E max_exponent \in (-1)..MaxExponentArg, base \in Bases :
           Extend("power", max_exponent, base, extend_fast_range_to_power(lut, max_exponent, base))

Call_extend_fast_range_to_bitlen ==
    /\ Idle
    /\ \E max_bitlen \in 0..MaxBitlenArg, base \in Bases :
           Extend("bitlen", max_bitlen, base, extend_fast_range_to_bitlen(lut, max_bitlen, base))

Call_gt_log ==
    /\ Idle
    /\ \E value \in Values, base \in Bases :
           Finish("auto", "log", "gt", FALSE, value, base, gt_log(lut, value, base))

Call_ge_log ==
    /\ Idle
    /\ \E value \in Values, base \in Bases :
           Finish("auto", "log", "ge", FALSE, value, base, ge_log(lut, value, base))

Call_lt_log ==
    /\ Idle
    /\ \E value \in Values, base \in Bases :
           Finish("auto", "log", "lt", FALSE, value, base, lt_log(lut, value, base))

Call_le_log ==
    /\ Idle
    /\ \E value \in Values, base \in Bases :
           Finish("auto", "log", "le", FALSE, value, base, le_log(lut, value, base))

Call_int_log ==
    /\ Idle
    /\ \E value \in Values, base \in Bases, rounding \in DOMAIN _ROUNDING :
           Finish("auto", "log", rounding, TRUE, value, base, int_log(lut, value, base, rounding))

Call_gt_pow ==
    /\ Idle
    /\ \E value \in Values, base \in Bases :
           Finish("auto", "pow", "gt", FALSE, value, base, gt_pow(lut, value, base))

Call_ge_pow ==
    /\ Idle
    /\ \E value \in Values, base \in Bases :
           Finish("auto", "pow", "ge", FALSE, value, base, ge_pow(lut, value, base))

Call_lt_pow ==
    /\ Idle
    /\ \E value \in Values, base \in Bases :
           Finish("auto", "pow", "lt", FALSE, value, base, lt_pow(lut, value, base))

Call_le_pow ==
    /\ Idle
    /\ \E value \in Values, base \in Bases :
           Finish("auto", "pow", "le", FALSE, value, base, le_pow(lut, value, base))

Call_int_pow ==
    /\ Idle
    /\ \E value \in Values, base \in Bases, rounding \in DOMAIN _ROUNDING :
           Finish("auto", "pow", rounding, TRUE, value, base, int_pow(lut, value, base, rounding))

Call_fast_gt_log ==
    /\ Idle
    /\ \E value \in Values, base \in Bases :
           Finish("fast", "log", "gt", FALSE, value, base, fast_gt_log(lut, value, base))

Call_fast_ge_log ==
    /\ Idle
    /\ \E value \in Values, base \in Bases :
           Finish("fast", "log", "ge", FALSE, value, base, fast_ge_log(lut, value, base))

Call_fast_lt_log ==
    /\ Idle
    /\ \E value \in Values, base \in Bases :
           Finish("fast", "log", "lt", FALSE, value, base, fast_lt_log(lut, value, base))

Call_fast_le_log ==
    /\ Idle
    /\ \E value \in Values, base \in Bases :
           Finish("fast", "log", "le", FALSE, value, base, fast_le_log(lut, value, base))

Call_fast_int_log ==
    /\ Idle
    /\ \E value \in Values, base \in Bases, rounding \in DOMAIN _ROUNDING :
           Finish("fast", "log", rounding, TRUE, value, base, fast_int_log(lut, value, base, rounding))

Call_fast_gt_pow ==
    /\ Idle
    /\ \E value \in Values, base \in Bases :
           Finish("fast", "pow", "gt", FALSE, value, base, fast_gt_pow(lut, value, base))

Call_fast_ge_pow ==
    /\ Idle
    /\ \E value \in Values, base \in Bases :
           Finish("fast", "pow", "ge", FALSE, value, base, fast_ge_pow(lut, value, base))

Call_fast_lt_pow ==
    /\ Idle
    /\ \E value \in Values, base \in Bases :
           Finish("fast", "pow", "lt", FALSE, value, base, fast_lt_pow(lut, value, base))

Call_fast_le_pow ==
    /\ Idle
    /\ \E value \in Values, base \in Bases :
           Finish("fast", "pow", "le", FALSE, value, base, fast_le_pow(lut, value, base))

Call_fast_int_pow ==
    /\ Idle
    /\ \E value \in Values, base \in Bases, rounding \in DOMAIN _ROUNDING :
           Finish("fast", "pow", rounding, TRUE, value, base, fast_int_pow(lut, value, base, rounding))

Call_slow_gt_log ==
    /\ Idle
    /\ \E value \in Values, base \in IntBases :
           Enter("log", "gt", FALSE, value, base, SlowEnter(value, _log_error))

Call_slow_ge_log ==
    /\ Idle
    /\ \E value \in Values, base \in IntBases :
           Enter("log", "ge", FALSE, value, base, SlowEnter(value, _log_error))

Call_slow_lt_log ==
    /\ Idle
    /\ \E value \in Values, base \in IntBases :
           Enter("log", "lt", FALSE, value, base, SlowEnter(value, _log_error))

Call_slow_le_log ==
    /\ Idle
    /\ \E value \in Values, base \in IntBases :
           Enter("log", "le", FALSE, value, base, SlowEnter(value, _log_error))

Call_slow_int_log ==
    /\ Idle
    /\ \E value \in Values, base \in IntBases, rounding \in DOMAIN _ROUNDING :
           Enter("log", rounding, TRUE, value, base, SlowEnter(value, _log_error))

Call_slow_gt_pow ==
    /\ Idle
    /\ \E value \in Values, base \in IntBases :
           Enter("pow", "gt", FALSE, value, base, SlowEnter(value, _pow_error))

Call_slow_ge_pow ==
    /\ Idle
    /\ \E value \in Values, base \in IntBases :
           Enter("pow", "ge", FALSE, value, base, SlowEnter(value, _pow_error))

Call_slow_lt_pow ==
    /\ Idle
    /\ \E value \in Values, base \in IntBases :
           Enter("pow", "lt", FALSE, value, base, SlowEnter(value, _pow_error))

Call_slow_le_pow ==
    /\ Idle
    /\ \E value \in Values, base \in IntBases :
           Enter("pow", "le", FALSE, value, base, SlowEnter(value, _pow_error))

Call_slow_int_pow ==
    /\ Idle
    /\ \E value \in Values, base \in IntBases, rounding \in DOMAIN _ROUNDING :
           Enter("pow", rounding, TRUE, value, base, SlowEnter(value, _pow_error))

\* one evaluation of the loop test of the executing slow_* function
SlowTest(c) ==
    IF c.int
    THEN IF c.cat = "log"
         THEN slow_int_log(c.value, c.base, c.rounding, c.power, c.exponent)
         ELSE slow_int_pow(c.value, c.base, c.rounding, c.power, c.exponent)
    ELSE CASE c.cat = "log" /\ c.mode = "gt" -> slow_gt_log(c.value, c.base, c.power, c.exponent)
           [] c.cat = "log" /\ c.mode = "ge" -> slow_ge_log(c.value, c.base, c.power, c.exponent)
           [] c.cat = "log" /\ c.mode = "lt" -> slow_lt_log(c.value, c.base, c.power, c.exponent)
           [] c.cat = "log" /\ c.mode = "le" -> slow_le_log(c.value, c.base, c.power, c.exponent)
           [] c.cat = "pow" /\ c.mode = "gt" -> slow_gt_pow(c.value, c.base, c.power, c.exponent)
           [] c.cat = "pow" /\ c.mode = "ge" -> slow_ge_pow(c.value, c.base, c.power, c.exponent)
           [] c.cat = "pow" /\ c.mode = "lt" -> slow_lt_pow(c.value, c.base, c.power, c.exponent)
           [] c.cat = "pow" /\ c.mode = "le" -> slow_le_pow(c.value, c.base, c.power, c.exponent)

SlowStep ==
    /\ call.status = "running"
    /\ call.exponent < MaxIter
    /\ LET r == SlowTest(call)
       IN call' = [call EXCEPT !.status = r.status, !.result = r.result,
                               !.exponent = r.exponent, !.power = r.power]
    /\ UNCHANGED <<lut, pre, thr>>

\* the caller takes the value returned or the exception raised
Resume ==
    /\ call.status \notin {"none", "running"}
    /\ call' = NoCall
    /\ pre' = lut
    /\ UNCHANGED <<lut, thr>>

Next ==
    \/ Call_extend_fast_range_to_power
    \/ Call_extend_fast_range_to_bitlen
    \/ Call_gt_log
    \/ Call_ge_log
    \/ Call_lt_log
    \/ Call_le_log
    \/ Call_int_log
    \/ Call_gt_pow
    \/ Call_ge_pow
    \/ Call_lt_pow
    \/ Call_le_pow
    \/ Call_int_pow
    \/ Call_fast_gt_log
    \/ Call_fast_ge_log
    \/ Call_fast_lt_log
    \/ Call_fast_le_log
    \/ Call_fast_int_log
    \/ Call_fast_gt_pow
    \/ Call_fast_ge_pow
    \/ Call_fast_lt_pow
    \/ Call_fast_le_pow
    \/ Call_fast_int_pow
    \/ Call_slow_gt_log
    \/ Call_slow_ge_log
    \/ Call_slow_lt_log
    \/ Call_slow_le_log
    \/ Call_slow_int_log
    \/ Call_slow_gt_pow
    \/ Call_slow_ge_pow
    \/ Call_slow_lt_pow
    \/ Call_slow_le_pow
    \/ Call_slow_int_pow
    \/ SlowStep
    \/ Resume

Spec == Init /\ [][Next]_vars

----------------------------------------------------------------------------
(* Vocabulary of the properties *)

\* the auto-extending function of a category and rounding, on dictionary l
AutoCall(cat, mode, l, value, base) ==
    CASE cat = "log" /\ mode = "gt" -> gt_log(l, value, base)
      [] cat = "log" /\ mode = "ge" -> ge_log(l, value, base)
      [] cat = "log" /\ mode = "lt" -> lt_log(l, value, base)
      [] cat = "log" /\ mode = "le" -> le_log(l, value, base)
      [] cat = "pow" /\ mode = "gt" -> gt_pow(l, value, base)
      [] cat = "pow" /\ mode = "ge" -> ge_pow(l, value, base)
      [] cat = "pow" /\ mode = "lt" -> lt_pow(l, value, base)
      [] cat = "pow" /\ mode = "le" -> le_pow(l, value, base)

\* the fast_* function of a category and rounding, on dictionary l
FastCall(cat, mode, l, value, base) ==
    CASE cat = "log" /\ mode = "gt" -> fast_gt_log(l, value, base)
      [] cat = "log" /\ mode = "ge" -> fast_ge_log(l, value, base)
      [] cat = "log" /\ mode = "lt" -> fast_lt_log(l, value, base)
      [] cat = "log" /\ mode = "le" -> fast_le_log(l, value, base)
      [] cat = "pow" /\ mode = "gt" -> fast_gt_pow(l, value, base)
      [] cat = "pow" /\ mode = "ge" -> fast_ge_pow(l, value, base)
      [] cat = "pow" /\ mode = "lt" -> fast_lt_pow(l, value, base)
      [] cat = "pow" /\ mode = "le" -> fast_le_pow(l, value, base)

Cats == {"log", "pow"}
Queries == {"auto", "fast", "slow"}

\* the last call has returned or raised
Done == call.status \notin {"none", "running"}
Returned == call.status = "ok"
RangeErrors == {"KeyError", "IndexError"}

\* the table of base in l has an entry at index bitlen
Covers(l, base, bitlen) == HasTable(l, base) /\ bitlen < Len(l[base])

\* the sign of base ** e - v, for base > 0 and any integer e
\* (base ** e is the fraction 1 / base ** -e when e < 0)
CmpPow(base, e, v) ==
    LET d == IF e >= 0 THEN IPow(base, e) - v ELSE 1 - v * IPow(base, 0 - e)
    IN IF d < 0 THEN -1 ELSE IF d > 0 THEN 1 ELSE 0

\* the double inequality of a rounding for the exponent e
LogExact(mode, e, value, base) ==
    CASE mode = "gt" -> CmpPow(base, e - 1, value) <= 0 /\ CmpPow(base, e, value) > 0
      [] mode = "ge" -> CmpPow(base, e - 1, value) < 0 /\ CmpPow(base, e, value) >= 0
      [] mode = "lt" -> CmpPow(base, e, value) < 0 /\ CmpPow(base, e + 1, value) >= 0
      [] mode = "le" -> CmpPow(base, e, value) <= 0 /\ CmpPow(base, e + 1, value) > 0

\* the double inequality of a rounding for the power p
PowExact(mode, p, value, base) ==
    CASE mode = "gt" -> p \div base <= value /\ value < p
      [] mode = "ge" -> p \div base < value /\ value <= p
      [] mode = "lt" -> p < value /\ value <= p * base
      [] mode = "le" -> p <= value /\ value < p * base

IsPower(p, base, value) == \E e \in 0..bit_length(value) : p = IPow(base, e)

\* base ** e == p in Python, for base > 0
PowEq(base, e, p) == CmpPow(base, e, p) = 0

----------------------------------------------------------------------------
(* Properties *)

\* C1: every auto-extending logarithm call with base >= 2 and value >= 1
\* returns, and the returned exponent satisfies the double inequality of its
\* rounding (lt_log(1, base) = -1 included, read with base ** -1 = 1 / base).
C1_LogExactness ==
    (Done /\ call.disc = "auto" /\ call.cat = "log"
          /\ call.base \in ValidBases /\ call.value >= 1)
    => (Returned /\ LogExact(call.mode, call.result, call.value, call.base))

\* an auto-extending logarithm call that had to extend the table has returned
C1_Witness ==
    /\ Returned /\ call.disc = "auto" /\ call.cat = "log"
    /\ call.base = 3 /\ call.value >= 4 /\ pre # lut

\* C2: when the table of a valid base covers the bit length of value >= 1,
\* the result of a finished query of any discipline is the result of the
\* fast_* function and of the auto-extending function on the same arguments,
\* and neither of the two changes the dictionary.
C2_CrossOracle ==
    (Returned /\ call.disc \in Queries /\ call.base \in ValidBases /\ call.value >= 1
              /\ Covers(lut, call.base, bit_length(call.value)))
    => LET f == FastCall(call.cat, call.mode, lut, call.value, call.base)
           a == AutoCall(call.cat, call.mode, lut, call.value, call.base)
       IN /\ f.status = "ok" /\ f.result = call.result
          /\ a.status = "ok" /\ a.result = call.result /\ a.lut = lut

\* a slow_* call has returned while the table covers its value
C2_Witness ==
    /\ Returned /\ call.disc = "slow" /\ call.base \in ValidBases /\ call.value >= 2
    /\ Covers(lut, call.base, bit_length(call.value))

\* C3: every power query that returns for base >= 2 and value >= 1 returns a
\* power satisfying the double inequality of its rounding, and it is an exact
\* power of base except for the lt rounding of value 1; the auto-extending
\* and slow_* power queries always return.
C3_PowExactness ==
    (Done /\ call.disc \in Queries /\ call.cat = "pow"
          /\ call.base \in ValidBases /\ call.value >= 1)
    => /\ call.disc # "fast" => Returned
       /\ (Returned /\ (call.mode # "lt" \/ call.value >= 2))
              => /\ PowExact(call.mode, call.result, call.value, call.base)
                 /\ IsPower(call.result, call.base, call.value)

\* a fast_lt_pow call on a value that is not a power of the base has returned
C3_Witness ==
    /\ Returned /\ call.disc = "fast" /\ call.cat = "pow" /\ call.mode = "lt"
    /\ call.base = 3 /\ call.value = 5

\* C4 as stated: base ** X_log(value, base) == X_pow(value, base) for every
\* rounding X, every base >= 2 and every value >= 1.
C4_Original ==
    (Returned /\ call.disc = "auto" /\ call.base \in ValidBases /\ call.value >= 1)
    => LET other == AutoCall(IF call.cat = "log" THEN "pow" ELSE "log",
                             call.mode, lut, call.value, call.base)
           e == IF call.cat = "log" THEN call.result ELSE other.result
           p == IF call.cat = "pow" THEN call.result ELSE other.result
       IN other.status = "ok" /\ PowEq(call.base, e, p)

\* C4 amended: base ** X_log(value, base) == X_pow(value, base) except for
\* X = lt and value = 1, where lt_log gives -1 and lt_pow gives 0.
C4_LogPowConsistency ==
    (Returned /\ call.disc = "auto" /\ call.base \in ValidBases /\ call.value >= 1)
    => LET other == AutoCall(IF call.cat = "log" THEN "pow" ELSE "log",
                             call.mode, lut, call.value, call.base)
           e == IF call.cat = "log" THEN call.result ELSE other.result
           p == IF call.cat = "pow" THEN call.result ELSE other.result
       IN /\ other.status = "ok"
          /\ IF call.mode = "lt" /\ call.value = 1
             THEN e = -1 /\ p = 0
             ELSE PowEq(call.base, e, p)

\* lt_log(1, base) has returned
C4_Witness ==
    /\ Returned /\ call.disc = "auto" /\ call.cat = "log" /\ call.mode = "lt"
    /\ call.base \in ValidBases /\ call.value = 1

\* C5: every query of any discipline with value <= 0 and a valid base raises
\* the ValueError of its category.
C5_DomainRejection ==
    (Done /\ call.disc \in Queries /\ call.base \in ValidBases /\ call.value <= 0)
    => call.status = (IF call.cat = "log" THEN _log_error ELSE _pow_error)

\* C6: every extension call, and every query with value >= 1, raises the
\* ValueError of _init_base when the base is <= 1.
C6_InvalidBaseRejection ==
    (Done /\ call.base \in InvalidBases /\ (call.disc = "extend" \/ call.value >= 1))
    => call.status = _base_error

\* C7: a step never removes a table and never changes or removes an entry of
\* a table: the table of every base before the step is a prefix of its table
\* after the step.
AppendOnly ==
    \A b \in Bases :
        /\ Len(lut[b]) <= Len(lut'[b])
        /\ SubSeq(lut'[b], 1, Len(lut[b])) = lut[b]

C7_AppendOnly == [][AppendOnly]_vars

\* a call has appended entries to a table that existed before it
C7_Witness ==
    \E b \in ValidBases : HasTable(pre, b) /\ Len(lut[b]) > Len(pre[b]) + 1

\* C8: after extend_fast_range_to_bitlen(B, base) the highest index of the
\* table is >= B and every fast_* query on a value of bit length 1..B
\* returns; after extend_fast_range_to_power(E, base) with E >= 0 every
\* fast_* query on a value in 1..base ** E returns.
C8_ExtensionCoverage ==
    (Returned /\ call.disc = "extend")
    => /\ call.cat = "bitlen" =>
            /\ Len(lut[call.base]) - 1 >= call.value
            /\ \A v \in 1..(IPow(2, call.value) - 1), cat \in Cats, mode \in Modes :
                   FastCall(cat, mode, lut, v, call.base).status = "ok"
       /\ (call.cat = "power" /\ call.value >= 0) =>
            \A v \in 1..IPow(call.base, call.value), cat \in Cats, mode \in Modes :
                FastCall(cat, mode, lut, v, call.base).status = "ok"

\* extend_fast_range_to_power has extended a table that an earlier call made
C8_Witness ==
    /\ Returned /\ call.disc = "extend" /\ call.cat = "power" /\ call.value >= 2
    /\ HasTable(pre, call.base) /\ Len(pre[call.base]) > 2 /\ pre # lut

\* the target of the last extension call was covered by the table before it
TargetCovered ==
    /\ HasTable(pre, call.base)
    /\ IF call.cat = "bitlen"
       THEN Len(pre[call.base]) - 1 >= call.value
       ELSE Last(pre[call.base])[1] >= call.value

\* C9: an extension call whose target the existing table already covers
\* leaves the dictionary unchanged, and repeating an extension call that has
\* returned leaves the dictionary unchanged.
C9_ExtensionIdempotent ==
    (Returned /\ call.disc = "extend")
    => /\ TargetCovered => lut = pre
       /\ IF call.cat = "bitlen"
          THEN extend_fast_range_to_bitlen(lut, call.value, call.base).lut = lut
          ELSE extend_fast_range_to_power(lut, call.value, call.base).lut = lut

\* an extension call to exactly the extent the table already had has returned
C9_Witness ==
    /\ Returned /\ call.disc = "extend" /\ call.cat = "bitlen"
    /\ HasTable(pre, call.base) /\ Len(pre[call.base]) - 1 = call.value
    /\ call.value >= 2

\* C10: a fast_* query with a valid base and value >= 1 whose bit length the
\* table did not cover (or whose base had no table) raises KeyError or
\* IndexError, and the dictionary is as it was before the call.
C10_FastNeverExtends ==
    (Done /\ call.disc = "fast" /\ call.base \in ValidBases /\ call.value >= 1
          /\ ~Covers(pre, call.base, bit_length(call.value)))
    => call.status \in RangeErrors /\ lut = pre

\* a fast_* query beyond the extent of an existing table has raised
C10_Witness ==
    /\ call.disc = "fast" /\ call.status = "IndexError"
    /\ call.base \in ValidBases /\ call.value >= 1

\* the rounding each accepted rounding argument is to select
Selects ==
    [gt |-> "gt", ge |-> "ge", lt |-> "lt", le |-> "le"]
    @@ ("operator.gt" :> "gt") @@ ("operator.ge" :> "ge")
    @@ ("operator.lt" :> "lt") @@ ("operator.le" :> "le")
    @@ (">" :> "gt") @@ (">=" :> "ge") @@ ("u2265" :> "ge")
    @@ ("<" :> "lt") @@ ("<=" :> "le") @@ ("u2264" :> "le")

\* a slow_* call followed from state c for at most n loop tests
RECURSIVE SlowRun(_, _)
SlowRun(c, n) ==
    IF c.status # "running" \/ n = 0 THEN c
    ELSE LET r == SlowTest(c)
         IN SlowRun([c EXCEPT !.status = r.status, !.result = r.result,
                              !.exponent = r.exponent, !.power = r.power], n - 1)

\* the call of the slow_X_* function on the arguments of dispatcher call c,
\* at the same point of its loop
Direct(c) == [c EXCEPT !.int = FALSE, !.mode = Selects[c.rounding]]

\* C11: a call of a dispatcher (int_*, fast_int_*, slow_int_*) with any
\* accepted rounding argument - a name, an operator function or a symbol -
\* has the outcome and the effect on the dictionary of the call of the
\* function of the rounding X that the argument selects, for every value and
\* base; a slow_int_* call takes the same loop steps as slow_X_*.
C11_DispatcherEquivalence ==
    call.int =>
        LET X == Selects[call.rounding]
        IN /\ (Done /\ call.disc = "auto") =>
                LET d == AutoCall(call.cat, X, pre, call.value, call.base)
                IN call.status = d.status /\ call.result = d.result /\ lut = d.lut
           /\ (Done /\ call.disc = "fast") =>
                LET d == FastCall(call.cat, X, pre, call.value, call.base)
                IN call.status = d.status /\ call.result = d.result /\ lut = d.lut
           /\ (call.disc = "slow" /\ call.status = "running") =>
                SlowTest(call) = SlowTest(Direct(call))
           /\ (call.disc = "slow" /\ Returned) =>
                LET d == SlowRun([Direct(call) EXCEPT !.status = "running", !.result = 0,
                                                      !.exponent = 0, !.power = 1], MaxIter)
                IN d.status = "ok" /\ d.result = call.result

\* a dispatcher called with the symbol for <= has returned on a covered value
C11_Witness ==
    /\ Returned /\ call.int /\ call.disc = "fast" /\ call.rounding = "u2264"
    /\ call.base \in ValidBases /\ call.value >= 2

\* C12: for every base >= 2, in every discipline and through the
\* dispatchers, the lt power query on value 1 returns 0 and the lt logarithm
\* query on value 1 returns -1 (the auto-extending and slow_* ones always
\* return); no other power query with value >= 1 returns 0.
C12_Sentinel ==
    (Done /\ call.disc \in Queries /\ call.base \in ValidBases /\ call.value >= 1)
    => /\ (call.mode = "lt" /\ call.value = 1) =>
            /\ call.disc # "fast" => Returned
            /\ Returned => call.result = (IF call.cat = "pow" THEN 0 ELSE -1)
       /\ (Returned /\ call.cat = "pow" /\ call.result = 0)
              => (call.mode = "lt" /\ call.value = 1)

\* int_pow(1, base, '<') has returned
C12_Witness ==
    /\ Returned /\ call.int /\ call.disc = "auto" /\ call.cat = "pow"
    /\ call.rounding = "<" /\ call.value = 1 /\ call.base \in ValidBases

\* C13: the result of le_log(value, base) is >= the result of le_log on every
\* smaller value and <= its result on every larger value, whether the other
\* query runs on the dictionary before or after this call.
C13_Monotonic ==
    (Returned /\ call.disc = "auto" /\ call.cat = "log" /\ call.mode = "le" /\ ~call.int
              /\ call.base \in ValidBases /\ call.value >= 1)
    => \A v \in 1..MaxValue, l \in {pre, lut} :
           LET o == le_log(l, v, call.base)
           IN /\ o.status = "ok"
              /\ v <= call.value => o.result <= call.result
              /\ call.value <= v => call.result <= o.result

\* le_log has returned on a value between two powers after extending the table
C13_Witness ==
    /\ Returned /\ call.disc = "auto" /\ call.cat = "log" /\ call.mode = "le" /\ ~call.int
    /\ call.base = 2 /\ call.value = 3 /\ pre # lut

\* the exponents up to which the powers of the bases are tabulated; no table
\* has an index above it
MaxIndex == MaxBitlenArg + MaxExponentArg

\* base ** e and (base ** e).bit_length(), computed once
PowerOf == [b \in ValidBases |-> [e \in 0..MaxIndex |-> IPow(b, e)]]
BitlenOfPower == [b \in ValidBases |-> [e \in 0..MaxIndex |-> bit_length(IPow(b, e))]]

\* n.bit_length() for the numbers that a table can hold, computed once
BitLengths == [n \in 0..IPow(2, MaxIndex) |-> bit_length(n)]

\* the bit lengths that the powers of base b have
PowerBitlens == [b \in ValidBases |-> {BitlenOfPower[b][e] : e \in 0..MaxIndex}]

\* the pair (e, base ** e) of the smallest power of base b of bit length >= i
SmallestPower ==
    [b \in ValidBases |-> [i \in 1..MaxIndex |->
        CHOOSE c \in {<<e, PowerOf[b][e]>> : e \in 0..MaxIndex} :
            /\ i <= BitlenOfPower[b][c[1]]
            /\ c[1] = 0 \/ BitlenOfPower[b][c[1] - 1] < i]]

\* the populated indices of the table of base b
Indices(b) == IF HasTable(lut, b) THEN 1..(Len(lut[b]) - 1) ELSE {}

\* C14 as stated: the power stored at every populated index i >= 1 has bit
\* length exactly i.
C14_Original ==
    \A b \in ValidBases : \A i \in Indices(b) :
        bit_length(Item(lut[b], i)[2]) = i

\* C14 amended: the power stored at index i has bit length >= i, and exactly
\* i if and only if some power of the base has bit length i.
C14_CheckpointBitLength ==
    \A b \in ValidBases : \A i \in Indices(b) :
        LET n == BitLengths[Item(lut[b], i)[2]]
        IN /\ n >= i
           /\ (n = i) <=> (i \in PowerBitlens[b])

\* the table of base 3 holds 9, of bit length 4, at index 3
C14_Witness ==
    /\ HasTable(lut, 3) /\ Len(lut[3]) >= 4
    /\ bit_length(Item(lut[3], 3)[2]) = 4

\* C15: every entry (e, p) at a populated index i >= 1 has p = base ** e and
\* p is the smallest power of base of bit length >= i; exponents and powers do
\* not decrease from an index to the next.
C15_TableContent ==
    \A b \in ValidBases :
        /\ HasTable(lut, b) => Tail(lut[b]) = SubSeq(SmallestPower[b], 1, Len(lut[b]) - 1)
        /\ \A i \in Indices(b) \ {1} :
               /\ Item(lut[b], i - 1)[1] <= Item(lut[b], i)[1]
               /\ Item(lut[b], i - 1)[2] <= Item(lut[b], i)[2]

\* a table holds the same entry at two indices and a later entry after them
C15_Witness ==
    /\ HasTable(lut, 3) /\ Len(lut[3]) >= 6
    /\ Item(lut[3], 3) = Item(lut[3], 4)
    /\ Item(lut[3], 5) = <<3, 27>>

\* C16: an auto-extending query that returns leaves the dictionary unchanged
\* when the table covered the bit length of the value; otherwise it changes
\* only the table of its base, by appending, up to the first power whose bit
\* length reaches that of the value; its result is the one computed from the
\* entry at that index, and the lookup that every fast_* function makes then
\* succeeds for each value of the same or a smaller bit length.
C16_AutoExtension ==
    (Returned /\ call.disc = "auto")
    => LET bl == bit_length(call.value)
           b == call.base
           e == Last(lut[b])[1]
       IN /\ Covers(pre, b, bl) => lut = pre
          /\ ~Covers(pre, b, bl) =>
                /\ \A o \in Bases \ {b} : lut[o] = pre[o]
                /\ HasTable(pre, b) => SubSeq(lut[b], 1, Len(pre[b])) = pre[b]
                /\ Len(lut[b]) - 1 >= bl
                /\ e = 0 \/ bit_length(IPow(b, e - 1)) < bl
          /\ call.result = FastCall(call.cat, call.mode, lut, call.value, b).result
          /\ \A v \in 1..(IPow(2, bl) - 1) : LutGet(lut, b, bit_length(v)).status = "ok"

\* an auto-extending query has extended a table that existed and was too short
C16_Witness ==
    /\ Returned /\ call.disc = "auto" /\ call.value >= 4
    /\ HasTable(pre, call.base) /\ ~Covers(pre, call.base, bit_length(call.value))

\* C20: an extension call or auto-extending query that raises the TypeError
\* or ValueError of _init_base, or the ValueError for value <= 0, leaves the
\* dictionary as it was.
C20_FailureFrame ==
    (Done /\ call.disc \in {"extend", "auto"}
          /\ call.status \in {"TypeError", _base_error, _log_error, _pow_error})
    => lut = pre

\* a call with an invalid base has raised while the dictionary held a table
C20_Witness ==
    /\ call.disc \in {"extend", "auto"} /\ call.status \in {"TypeError", _base_error}
    /\ \E b \in ValidBases : HasTable(lut, b) /\ Len(lut[b]) > 2

----------------------------------------------------------------------------
(* Termination *)

\* a call that has started keeps executing: the interpreter runs the body of
\* the while loop of a slow_* function again as long as its test holds
FairSpec == Spec /\ WF_vars(SlowStep)

\* C17: every call that has started finishes, with a result or an error; the
\* loop of a slow_* function that is running eventually exits.
C17_Termination == (call.status = "running") ~> (call.status # "running")

----------------------------------------------------------------------------
(* Calls executed by two threads.  A step is one access to the shared    *)
(* dictionary or to a shared table: the setdefault, the read of           *)
(* limits[-1], a read of len(limits), an append, the lookup of            *)
(* _lut[base], the indexing of the table.  What a function computes on    *)
(* its own variables between two accesses belongs to the step of the      *)
(* access before it.                                                      *)

ConcBases == {1} \cup ValidBases

\* the functions that the threads call, besides extend_fast_range_to_bitlen:
\* gt_log, le_pow, fast_gt_log, fast_le_pow
ConcFuncs == {<<"log", "gt">>, <<"pow", "le">>}

\* the tables that earlier calls have left: none, or those of the bases in s
\* extended to ConcSeedBitlen bits
RECURSIVE Seeded(_, _)
Seeded(l, s) ==
    IF s = {} THEN l
    ELSE LET b == CHOOSE x \in s : TRUE
         IN Seeded(extend_fast_range_to_bitlen(l, ConcSeedBitlen, b).lut, s \ {b})

ConcInit ==
    /\ \E s \in SUBSET ValidBases : lut = Seeded([b \in Bases |-> NoTable], s)
    /\ pre = lut
    /\ call = NoCall
    /\ thr = [t \in Threads |-> NoThread]

\* the value of the return expression of a query function for the pair
\* (exponent, power) that it has fetched
ReturnExpr(cat, mode, value, base, exponent, power) ==
    LET limits == [i \in 1..(bit_length(value) + 1) |-> <<exponent, power>>]
    IN FastCall(cat, mode, [b \in Bases |-> limits], value, base).result

\* limits.append((exponent, power)) inserting the pair before the entries
ListAppend_front(limits, exponent, power) ==
    <<limits[1], <<exponent, power>>>> \o Tail(limits)

\* limits.append((exponent, power))
ListAppend(limits, exponent, power) == Append(limits, <<exponent, power>>)

Set(t, r) == thr' = [thr EXCEPT ![t] = r]

\* the thread has raised exc
ThrRaise(c, exc) == [c EXCEPT !.pc = "done", !.status = exc]

\* the thread has returned v
ThrReturn(c, v) == [c EXCEPT !.pc = "done", !.status = "ok", !.result = v]

\* the test of `while bitlen < max_bitlen` in extend_fast_range_to_bitlen with
\* what follows it: power *= base, exponent += 1 and the call of
\* _init_next_power up to its first read of len(limits), or the return
LoopHead(c, bitlen) ==
    IF bitlen < c.max_bitlen
    THEN [c EXCEPT !.pc = "test", !.exponent = c.exponent + 1, !.power = c.power * c.base]
    ELSE IF c.op = "extend"
    THEN ThrReturn(c, 0)
    ELSE ThrReturn(c, ReturnExpr(c.cat, c.mode, c.value, c.base, c.exponent, c.power))

\* _init_base: the validation of the base and the setdefault
ThrInitBase(t, c) ==
    LET i == _init_base(lut, c.base)
    IN /\ lut' = i.lut
       /\ Set(t, IF i.status # "ok" THEN ThrRaise(c, i.status) ELSE [c EXCEPT !.pc = "last"])

\* a thread calls extend_fast_range_to_bitlen(max_bitlen, base)
StartExtend ==
    \E t \in Threads :
        /\ thr[t].pc = "idle"
        /\ \E max_bitlen \in 0..ConcMaxBitlen, base \in ConcBases :
               ThrInitBase(t, [thr[t] EXCEPT !.op = "extend", !.base = base,
                                             !.max_bitlen = max_bitlen])
        /\ UNCHANGED <<pre, call>>

\* a thread calls an auto-extending or fast_* query function, up to the
\* lookup _lut[base]
StartQuery ==
    \E t \in Threads :
        /\ thr[t].pc = "idle"
        /\ \E op \in {"auto", "fast"}, f \in ConcFuncs, value \in 1..ConcMaxValue,
              base \in ConcBases :
               LET alone == FastCall(f[1], f[2], lut, value, base)
                   c == [thr[t] EXCEPT !.op = op, !.cat = f[1], !.mode = f[2],
                                       !.value = value, !.base = base,
                                       !.covered = Covers(lut, base, bit_length(value)),
                                       !.expect = alone.result,
                                       !.len0 = Len(lut[base])]
               IN Set(t, IF HasTable(lut, base) THEN [c EXCEPT !.pc = "index"]
                         ELSE IF op = "fast" THEN ThrRaise(c, "KeyError")
                         ELSE [c EXCEPT !.pc = "init", !.max_bitlen = bit_length(value)])
        /\ UNCHANGED <<lut, pre, call>>

\* the indexing [value.bit_length()] of the table that the lookup gave
ThrIndex ==
    \E t \in Threads :
        /\ thr[t].pc = "index"
        /\ LET c == [thr[t] EXCEPT !.len1 = Len(lut[thr[t].base])]
               g == LutGet(lut, c.base, bit_length(c.value))
           IN Set(t, IF g.status = "ok"
                     THEN ThrReturn(c, ReturnExpr(c.cat, c.mode, c.value, c.base,
                                                  g.exponent, g.power))
                     ELSE IF c.op = "fast" THEN ThrRaise(c, g.status)
                     ELSE [c EXCEPT !.pc = "init", !.max_bitlen = bit_length(c.value)])
        /\ UNCHANGED <<lut, pre, call>>

\* except (KeyError, IndexError): the call of extend_fast_range_to_bitlen
ThrMiss ==
    \E t \in Threads :
        /\ thr[t].pc = "init"
        /\ ThrInitBase(t, thr[t])
        /\ UNCHANGED <<pre, call>>

\* return (limits,) + limits[-1]
ThrLast ==
    \E t \in Threads :
        /\ thr[t].pc = "last"
        /\ Set(t, [thr[t] EXCEPT !.pc = "len", !.exponent = Last(lut[thr[t].base])[1],
                                 !.power = Last(lut[thr[t].base])[2]])
        /\ UNCHANGED <<lut, pre, call>>

\* bitlen = len(limits) - 1
ThrLen ==
    \E t \in Threads :
        /\ thr[t].pc = "len"
        /\ Set(t, LoopHead(thr[t], Len(lut[thr[t].base]) - 1))
        /\ UNCHANGED <<lut, pre, call>>

\* the test of `while len(limits) <= bitlen` in _init_next_power; when it
\* fails, return bitlen
ThrTest ==
    \E t \in Threads :
        /\ thr[t].pc = "test"
        /\ Set(t, IF Len(lut[thr[t].base]) <= bit_length(thr[t].power)
                  THEN [thr[t] EXCEPT !.pc = "append"]
                  ELSE LoopHead(thr[t], bit_length(thr[t].power)))
        /\ UNCHANGED <<lut, pre, call>>

\* limits.append((exponent, power))
ThrAppend ==
    \E t \in Threads :
        /\ thr[t].pc = "append"
        /\ lut' = [lut EXCEPT ![thr[t].base] = ListAppend(@, thr[t].exponent, thr[t].power)]
        /\ Set(t, [thr[t] EXCEPT !.pc = "test"])
        /\ UNCHANGED <<pre, call>>

ConcNext ==
    \/ StartExtend
    \/ StartQuery
    \/ ThrIndex
    \/ ThrMiss
    \/ ThrLast
    \/ ThrLen
    \/ ThrTest
    \/ ThrAppend

ConcSpec == ConcInit /\ [][ConcNext]_vars

\* the thread extends a table: extend_fast_range_to_bitlen, or a query whose
\* lookup missed
Extends(c) == c.max_bitlen >= 0 /\ c.base \in ValidBases

\* the same call executed alone on dictionary l
Alone(c, l) ==
    IF c.op = "extend" THEN extend_fast_range_to_bitlen(l, c.max_bitlen, c.base).lut
    ELSE AutoCall(c.cat, c.mode, l, c.value, c.base).lut

\* C18: when two extension calls, or auto-extending queries that miss, on the
\* same base have run concurrently, the dictionary is the one that the two
\* calls leave when one runs after the other.
C18_ConcurrentExtension ==
    (/\ \A t \in Threads : thr[t].pc = "done" /\ Extends(thr[t])
     /\ thr[1].base = thr[2].base)
    => \/ lut = Alone(thr[2], Alone(thr[1], pre))
       \/ lut = Alone(thr[1], Alone(thr[2], pre))

\* C19: a fast_* or auto-extending query whose index was populated when it
\* started returns the result of the same call executed alone at that moment,
\* and appends nothing, whatever the other thread does in between.
C19_ReadersSafe ==
    \A t \in Threads :
        (thr[t].pc = "done" /\ thr[t].op \in {"auto", "fast"} /\ thr[t].covered)
        => /\ thr[t].status = "ok"
           /\ thr[t].result = thr[t].expect
           /\ thr[t].max_bitlen = -1

\* a query has returned after the extension of the other thread, on the same
\* base, appended between its lookup and its indexing
C19_Witness ==
    \E t, u \in Threads :
        /\ thr[t].pc = "done" /\ thr[t].op \in {"auto", "fast"} /\ thr[t].covered
        /\ thr[t].len1 > thr[t].len0
        /\ thr[u].op = "extend" /\ thr[u].base = thr[t].base /\ thr[u].pc # "done"

----------------------------------------------------------------------------
(* The tail of the tables *)

\* C21: under sequential execution only valid bases have a table, and every
\* table has None at index 0 and (0, 1) at index 1, no entry has a larger
\* exponent than the last one, and the highest populated index is the bit
\* length of the power of the last entry: len(limits) - 1 =
\* limits[-1][1].bit_length().
C21_TableTail ==
    \A b \in Bases :
        HasTable(lut, b) =>
            /\ b \in ValidBases
            /\ Item(lut[b], 0) = None
            /\ Item(lut[b], 1) = <<0, 1>>
            /\ \A i \in Indices(b) : Item(lut[b], i)[1] <= Last(lut[b])[1]
            /\ Len(lut[b]) - 1 = bit_length(Last(lut[b])[2])

\* extend_fast_range_to_bitlen has resumed from a table that ended with a
\* power filling two indices, and has appended to it
C21_Witness ==
    /\ Done /\ call.disc = "extend" /\ call.cat = "bitlen" /\ call.base = 3
    /\ Len(pre[3]) = 5 /\ Item(pre[3], 3) = Item(pre[3], 4)
    /\ Len(lut[3]) > 5

====
